---- MODULE Spec2Model ----
(***************************************************************************)
(* Position-similarity retrieval of ChessGPT (backend/fen_retriever.py):   *)
(* the encoder convert_fen_to_dotted_pieces, the matcher                   *)
(* find_closest_fens_naive and the ranker rank_studies_for_game; and the   *)
(* corpus build of backend/fen_processor.py: process_single_study_data and *)
(* the pool merge of main; and the study retrieval of the analyzer         *)
(* (backend/main_analyzer.py) that calls the ranker.                       *)
(*                                                                         *)
(* Python strings are sequences of one-character strings.  A corpus record *)
(* returned by the matcher is the Python object itself, so a match carries *)
(* the record's position in all_fens_data (its identity) and the fields are*)
(* read through that position.  A dict is a sequence of entries in         *)
(* insertion order, which is the order Python iterates it in.  A float     *)
(* quotient of two small integers is the rational in lowest terms.         *)
(***************************************************************************)
EXTENDS Integers, Sequences, FiniteSets, TLC

\* ------------------------------------------------------------------ bounds
MaxCorpus == 3
MaxQuery == 2
MaxTopN == 2
MaxStrLen == 3
MaxFenLen == 3
BoardSize == 2
MaxMoves == 2
MaxChapters == 2
MaxStudies == 2
MaxProcesses == 2

\* ------------------------------------------------------------ input pools
\* Full FEN strings of a user's game: "", "p1 w", "2 b".
GameFens == { <<>>, <<"p", "1", " ", "w">>, <<"2", " ", "b">> }

\* Encoded positions found in the corpus: "p." and ".p".
CorpusDotted == { <<"p", ".">>, <<".", "p">> }

\* (study_id, chapter) pairs of the corpus: two chapters of one study and a
\* chapter of another study that carries the same chapter title.
CorpusKeys == { <<"s1", "A">>, <<"s1", "B">>, <<"s2", "A">> }

CorpusRecords ==
  { [dotted_fen |-> d, study_id |-> k[1], chapter |-> k[2]] :
      d \in CorpusDotted, k \in CorpusKeys }

SeqsUpTo(S, n) == UNION { [1..m -> S] : m \in 0..n }

\* Query strings handed to the matcher directly: "", "p.", "..", ".p".
QueryDotted == { <<>>, <<"p", ".">>, <<".", ".">>, <<".", "p">> }

\* Strings the distance is tabulated on.
DistStrings == SeqsUpTo({"p", "."}, MaxStrLen)

\* ---------------------------------------------------------------- helpers
Min2(a, b) == IF a <= b THEN a ELSE b
Max2(a, b) == IF a >= b THEN a ELSE b

RECURSIVE SumSeq(_)
SumSeq(s) == IF s = <<>> THEN 0 ELSE Head(s) + SumSeq(Tail(s))

RECURSIVE Gcd(_, _)
Gcd(a, b) == IF b = 0 THEN a ELSE Gcd(b, a % b)

\* sum / n as Python's float division gives it, for n > 0.
Quotient(sum, n) ==
  LET g == Gcd(sum, n) IN [num |-> sum \div g, den |-> n \div g]

FloatLess(x, y) == x.num * y.den < y.num * x.den
FloatLeq(x, y) == x.num * y.den <= y.num * x.den

\* dict.get(key, default) on a dict given as a function.
Get(dict, key, default) == IF key \in DOMAIN dict THEN dict[key] ELSE default

\* ---------------------------------------------------------------- encoder
IsDigit(c) == c \in {"0", "1", "2", "3", "4", "5", "6", "7", "8", "9"}

DigitValue(c) ==
  CASE c = "0" -> 0 [] c = "1" -> 1 [] c = "2" -> 2 [] c = "3" -> 3
    [] c = "4" -> 4 [] c = "5" -> 5 [] c = "6" -> 6 [] c = "7" -> 7
    [] c = "8" -> 8 [] c = "9" -> 9

\* The whole string, not split.
FirstFieldUnsplit(s) == s

\* full_fen_string.split(' ')[0]
FirstField(s) ==
  LET spaces == { i \in 1..Len(s) : s[i] = " " }
  IN IF spaces = {} THEN s
     ELSE SubSeq(s, 1, (CHOOSE i \in spaces : \A j \in spaces : i <= j) - 1)

\* One placeholder whatever the count.
DotsNotExpanded(n) == <<".">>

\* One placeholder too many.
DotsOneMore(n) == [i \in 1..(n + 1) |-> "."]

Dots(n) == [i \in 1..n |-> "."]

RECURSIVE ExpandDigits(_)
ExpandDigits(s) ==
  IF s = <<>> THEN <<>>
  ELSE (IF IsDigit(Head(s)) THEN Dots(DigitValue(Head(s))) ELSE <<Head(s)>>)
         \o ExpandDigits(Tail(s))

convert_fen_to_dotted_pieces(full_fen_string) ==
  IF full_fen_string = <<>> THEN <<>>
  ELSE ExpandDigits(FirstField(full_fen_string))

\* ------------------------------------------------------- board snapshots
\* A board snapshot is its ranks from the top, each rank its squares: a piece
\* letter, or "." for an empty square.

DigitChar(n) ==
  CASE n = 0 -> "0" [] n = 1 -> "1" [] n = 2 -> "2" [] n = 3 -> "3"
    [] n = 4 -> "4" [] n = 5 -> "5" [] n = 6 -> "6" [] n = 7 -> "7"
    [] n = 8 -> "8" [] n = 9 -> "9"

\* The piece-placement notation of one rank: every run of empty squares is
\* written as its length.
RECURSIVE RankFen(_, _)
RankFen(rank, run) ==
  IF rank = <<>> THEN (IF run = 0 THEN <<>> ELSE <<DigitChar(run)>>)
  ELSE IF Head(rank) = "." THEN RankFen(Tail(rank), run + 1)
  ELSE (IF run = 0 THEN <<>> ELSE <<DigitChar(run)>>)
         \o <<Head(rank)>> \o RankFen(Tail(rank), 0)

\* The first field of board.fen(): the ranks joined by "/".
RECURSIVE BoardFen(_)
BoardFen(board) ==
  IF board = <<>> THEN <<>>
  ELSE IF Len(board) = 1 THEN RankFen(board[1], 0)
  ELSE RankFen(Head(board), 0) \o <<"/">> \o BoardFen(Tail(board))

\* Every BoardSize x BoardSize snapshot with one kind of piece.
SmallBoards == [1..BoardSize -> [1..BoardSize -> {"p", "."}]]

\* The standard starting layout.
StartBoard ==
  << <<"r", "n", "b", "q", "k", "b", "n", "r">>,
     <<"p", "p", "p", "p", "p", "p", "p", "p">>,
     <<".", ".", ".", ".", ".", ".", ".", ".">>,
     <<".", ".", ".", ".", ".", ".", ".", ".">>,
     <<".", ".", ".", ".", ".", ".", ".", ".">>,
     <<".", ".", ".", ".", ".", ".", ".", ".">>,
     <<"P", "P", "P", "P", "P", "P", "P", "P">>,
     <<"R", "N", "B", "Q", "K", "B", "N", "R">> >>

\* The fields of a full FEN behind the piece placement: none, " w", " b 1".
FenTails == { <<>>, <<" ", "w">>, <<" ", "b", " ", "1">> }

\* Any text in the place of a piece placement: pieces, counts, separators and
\* a symbol no board has.
FenTexts == SeqsUpTo({"p", "1", "2", "/", "x"}, MaxFenLen)

\* --------------------------------------------------------------- distance
Min3(a, b, c) == Min2(a, Min2(b, c))

\* A distance whose deletions cost two.
RECURSIVE LevenshteinDeletionTwo(_, _)
LevenshteinDeletionTwo(a, b) ==
  IF a = <<>> THEN Len(b)
  ELSE IF b = <<>> THEN 2 * Len(a)
  ELSE Min3(LevenshteinDeletionTwo(Tail(a), b) + 2,
            LevenshteinDeletionTwo(a, Tail(b)) + 1,
            LevenshteinDeletionTwo(Tail(a), Tail(b))
              + (IF Head(a) = Head(b) THEN 0 ELSE 1))

\* Levenshtein.distance(a, b) with its default unit weights.
RECURSIVE LevenshteinDistance(_, _)
LevenshteinDistance(a, b) ==
  IF a = <<>> THEN Len(b)
  ELSE IF b = <<>> THEN Len(a)
  ELSE Min3(LevenshteinDistance(Tail(a), b) + 1,
            LevenshteinDistance(a, Tail(b)) + 1,
            LevenshteinDistance(Tail(a), Tail(b))
              + (IF Head(a) = Head(b) THEN 0 ELSE 1))

\* ---------------------------------------------------------------- matcher
\* The list built by the scan of lines 46-49: one (dist, record) per record.
ScanDistances(query_dotted_fen, all_fens_data) ==
  [i \in 1..Len(all_fens_data) |->
     [dist |-> LevenshteinDistance(query_dotted_fen, all_fens_data[i].dotted_fen),
      record |-> i]]

\* An insertion that puts x before the elements of equal key.
RECURSIVE InsertBeforeEqual(_, _)
InsertBeforeEqual(s, x) ==
  IF s = <<>> THEN <<x>>
  ELSE IF s[Len(s)].dist < x.dist THEN Append(s, x)
  ELSE Append(InsertBeforeEqual(SubSeq(s, 1, Len(s) - 1), x), s[Len(s)])

\* Inserts x into the sorted list s behind every element whose key is <= its
\* own: one step of a stable sort by x[0].
RECURSIVE InsertByDistance(_, _)
InsertByDistance(s, x) ==
  IF s = <<>> THEN <<x>>
  ELSE IF s[Len(s)].dist <= x.dist THEN Append(s, x)
  ELSE Append(InsertByDistance(SubSeq(s, 1, Len(s) - 1), x), s[Len(s)])

RECURSIVE SortFrom(_, _)
SortFrom(sorted, rest) ==
  IF rest = <<>> THEN sorted
  ELSE SortFrom(InsertByDistance(sorted, Head(rest)), Tail(rest))

\* A sort with reverse=True.
SortByDistanceDescending(distances) ==
  LET up == SortFrom(<<>>, distances)
  IN [i \in 1..Len(up) |-> up[Len(up) + 1 - i]]

\* distances.sort(key=lambda x: x[0]): Python's sort is stable.
SortByDistance(distances) == SortFrom(<<>>, distances)

\* s[:n - 1]
SlicePrefixOneShort(s, n) ==
  IF n - 1 >= 0 THEN SubSeq(s, 1, Min2(n - 1, Len(s)))
  ELSE SubSeq(s, 1, Max2(0, Len(s) + n - 1))

\* s[:n]
SlicePrefix(s, n) ==
  IF n >= 0 THEN SubSeq(s, 1, Min2(n, Len(s)))
  ELSE SubSeq(s, 1, Max2(0, Len(s) + n))

\* A matcher that cuts the scan to top_n before it sorts.
find_closest_cut_before_sort(query_dotted_fen, all_fens_data, top_n) ==
  IF all_fens_data = <<>> THEN <<>>
  ELSE SortFrom(<<>>, SubSeq(ScanDistances(query_dotted_fen, all_fens_data),
                             1, Min2(top_n, Len(all_fens_data))))

find_closest_fens_naive(query_dotted_fen, all_fens_data, top_n) ==
  IF all_fens_data = <<>> THEN <<>>
  ELSE SlicePrefix(SortByDistance(ScanDistances(query_dotted_fen, all_fens_data)),
                   top_n)

\* A matcher that sorts the corpus list itself by distance to the query.
CorpusSortedInPlace(query_dotted_fen, all_fens_data, top_n) ==
  IF all_fens_data = <<>> THEN all_fens_data
  ELSE LET sorted == SortByDistance(ScanDistances(query_dotted_fen, all_fens_data))
       IN [i \in 1..Len(all_fens_data) |-> all_fens_data[sorted[i].record]]

\* Lines 37-54: the corpus list after the call.  The loop reads
\* record['dotted_fen'], the pairs go to the local list distances, and the
\* sort and the slice act on that list.
CorpusAfterFind(query_dotted_fen, all_fens_data, top_n) == all_fens_data

\* ----------------------------------------------------------------- ranker
\* Lines 105-111 for one ply: every (dist, record) of closest_ply_matches is
\* added to the entry of its (study_id, chapter) key, which setdefault-style
\* creation puts at the end of the dict.
RECURSIVE AddMatches(_, _, _, _)
AddMatches(relevance, matches, all_fens_data, ply) ==
  IF matches = <<>> THEN relevance
  ELSE
    LET m == Head(matches)
        key == << all_fens_data[m.record].study_id,
                  all_fens_data[m.record].chapter >>
        present == \E i \in 1..Len(relevance) : relevance[i].key = key
        withKey == IF present THEN relevance
                   ELSE Append(relevance,
                               [key |-> key, distances |-> <<>>,
                                ply_indices_matched |-> {}])
        at == CHOOSE i \in 1..Len(withKey) : withKey[i].key = key
        updated == [withKey EXCEPT
                      ![at].distances = Append(@, m.dist),
                      ![at].ply_indices_matched = @ \cup {ply}]
    IN AddMatches(updated, Tail(matches), all_fens_data, ply)

\* A loop body without the skip of lines 98-100.
ProcessPlyNoSkip(relevance, user_fen_full, all_fens_data, top_n_ply_matches, ply) ==
  AddMatches(relevance,
             find_closest_fens_naive(convert_fen_to_dotted_pieces(user_fen_full),
                                     all_fens_data, top_n_ply_matches),
             all_fens_data, ply)

\* The body of the loop of lines 96-111 for the entry at index ply (from 0).
ProcessPly(relevance, user_fen_full, all_fens_data, top_n_ply_matches, ply) ==
  LET user_dotted_fen == convert_fen_to_dotted_pieces(user_fen_full)
  IN IF user_dotted_fen = <<>> THEN relevance
     ELSE AddMatches(relevance,
                     find_closest_fens_naive(user_dotted_fen, all_fens_data,
                                             top_n_ply_matches),
                     all_fens_data, ply)

\* Lines 97-104: the corpus list after the loop body for one entry.
CorpusAfterPly(user_fen_full, all_fens_data, top_n_ply_matches) ==
  LET user_dotted_fen == convert_fen_to_dotted_pieces(user_fen_full)
  IN IF user_dotted_fen = <<>> THEN all_fens_data
     ELSE CorpusAfterFind(user_dotted_fen, all_fens_data, top_n_ply_matches)

\* An entry whose mean is taken over the matched plies.
RankedEntryMeanOverPlies(data) ==
  [study_id |-> data.key[1],
   chapter |-> data.key[2],
   average_distance |->
     Quotient(SumSeq(data.distances), Cardinality(data.ply_indices_matched)),
   distinct_ply_matches |-> Cardinality(data.ply_indices_matched),
   total_close_references |-> Len(data.distances)]

\* An entry whose ply count is the number of hits.
RankedEntryCountsHits(data) ==
  [study_id |-> data.key[1],
   chapter |-> data.key[2],
   average_distance |-> Quotient(SumSeq(data.distances), Len(data.distances)),
   distinct_ply_matches |-> Len(data.distances),
   total_close_references |-> Len(data.distances)]

\* An entry whose reference count is the number of matched plies.
RankedEntryTotalIsPlies(data) ==
  [study_id |-> data.key[1],
   chapter |-> data.key[2],
   average_distance |-> Quotient(SumSeq(data.distances), Len(data.distances)),
   distinct_ply_matches |-> Cardinality(data.ply_indices_matched),
   total_close_references |-> Cardinality(data.ply_indices_matched)]

\* The dict appended to ranked_studies at lines 128-134.
RankedEntry(data) ==
  [study_id |-> data.key[1],
   chapter |-> data.key[2],
   average_distance |-> Quotient(SumSeq(data.distances), Len(data.distances)),
   distinct_ply_matches |-> Cardinality(data.ply_indices_matched),
   total_close_references |-> Len(data.distances)]

\* A sort key with the two components swapped: closeness before breadth.
RankKeyLeqClosenessFirst(x, y) ==
  \/ FloatLess(x.average_distance, y.average_distance)
  \/ /\ x.average_distance = y.average_distance
     /\ x.distinct_ply_matches >= y.distinct_ply_matches

\* The sort key (-distinct_ply_matches, average_distance) of x is smaller
\* than or equal to that of y.
RankKeyLeq(x, y) ==
  \/ x.distinct_ply_matches > y.distinct_ply_matches
  \/ /\ x.distinct_ply_matches = y.distinct_ply_matches
     /\ FloatLeq(x.average_distance, y.average_distance)

RECURSIVE InsertByRank(_, _)
InsertByRank(s, x) ==
  IF s = <<>> THEN <<x>>
  ELSE IF RankKeyLeq(s[Len(s)], x) THEN Append(s, x)
  ELSE Append(InsertByRank(SubSeq(s, 1, Len(s) - 1), x), s[Len(s)])

RECURSIVE SortRankedFrom(_, _)
SortRankedFrom(sorted, rest) ==
  IF rest = <<>> THEN sorted
  ELSE SortRankedFrom(InsertByRank(sorted, Head(rest)), Tail(rest))

\* ranked_studies.sort(key=lambda x: (-x[...], x[...])), a stable sort.
SortRanked(ranked) == SortRankedFrom(<<>>, ranked)

RECURSIVE EntriesOf(_)
EntriesOf(relevance) ==
  IF relevance = <<>> THEN <<>>
  ELSE LET rest == EntriesOf(Tail(relevance))
       IN IF Head(relevance).distances = <<>> THEN rest
          ELSE <<RankedEntry(Head(relevance))>> \o rest

\* Lines 113-140: what the call returns once the loop has ended.
RankResult(relevance) ==
  IF relevance = <<>> THEN <<>> ELSE SortRanked(EntriesOf(relevance))

\* Lines 96-111: the loop from the entry at index ply (from 0) on.
RECURSIVE RankLoop(_, _, _, _, _)
RankLoop(relevance, user_game_fens_list, all_fens_data, top_n_ply_matches, ply) ==
  IF ply >= Len(user_game_fens_list) THEN relevance
  ELSE RankLoop(ProcessPly(relevance, user_game_fens_list[ply + 1],
                           all_fens_data, top_n_ply_matches, ply),
                user_game_fens_list, all_fens_data, top_n_ply_matches, ply + 1)

\* rank_studies_for_game, lines 81-140, run from its call to its return.
rank_studies_for_game(user_game_fens_list, all_fens_data, top_n_ply_matches) ==
  IF all_fens_data = <<>> \/ user_game_fens_list = <<>> THEN <<>>
  ELSE RankResult(RankLoop(<<>>, user_game_fens_list, all_fens_data,
                           top_n_ply_matches, 0))

\* A dict kept at module level: every call gets the one that is there.
ReuseDict(heap) == IF heap = <<>> THEN << <<>> >> ELSE heap

\* Line 93, study_chapter_relevance = {}: the heap of dict objects after the
\* call has created its own; the new dict is the last of the heap.
AllocDict(heap) == Append(heap, <<>>)

\* The concurrent callers of the ranker and what they pass: query sequences
\* of MaxQuery entries, over corpora of MaxCorpus records that begin with a
\* record of chapter A, with top_n_ply_matches 1 or MaxTopN.
CallIds == { "a", "b" }

CallsQueries == [1..MaxQuery -> GameFens]

CallsCorpora ==
  { corpus \in
      [1..MaxCorpus ->
         { [dotted_fen |-> <<"p", ".">>, study_id |-> "s1", chapter |-> "A"],
           [dotted_fen |-> <<".", "p">>, study_id |-> "s1", chapter |-> "B"] }] :
      corpus[1].chapter = "A" }

CallsTopN == { 1, MaxTopN }

\* The local variables of a call that has not been made.
NotCalled ==
  [at |-> "none", user_game_fens_list |-> <<>>, top_n_ply_matches |-> 0,
   ply_idx |-> 0, study_chapter_relevance |-> 0, ranked_studies |-> <<>>]

\* ---------------------------------------------------------------- analyzer
\* backend/main_analyzer.py, analyze_game_and_generate_prompt, phase 2.
\* The names the module fen_retriever defines (fen_retriever.py, lines 1-142).
FenRetrieverNames ==
  { "json", "Levenshtein", "time", "argparse", "chess", "PROCESSED_FEN_FILE",
    "convert_fen_to_dotted_pieces", "load_processed_fens",
    "find_closest_fens_naive", "get_fens_from_pgn_file",
    "rank_studies_for_game", "main" }

\* The parameters of rank_studies_for_game (fen_retriever.py, line 81).
RankStudiesParameters ==
  { "user_game_fens_list", "all_fens_data", "top_n_ply_matches" }

\* The keyword arguments of the call at main_analyzer.py, lines 232-237.
RankStudiesKeywords ==
  { "user_game_fens_list", "all_fens_data", "chapter_texts_map",
    "top_n_ply_matches" }

\* ranked_studies[:3], main_analyzer.py line 242.
PromptStudies == 3

\* The chapter texts that may be on disk: no file, an empty map, a map with
\* the text of chapter "A".
ChapterTextFiles ==
  { [present |-> FALSE, map |-> <<>>],
    [present |-> TRUE, map |-> <<>>],
    [present |-> TRUE, map |-> << [key |-> "A", value |-> <<"x">>] >>] }

\* Lines 243-250: the dict appended to top_studies_for_prompt.
PromptEntry(study_info) ==
  [study_id |-> study_info.study_id,
   chapter |-> study_info.chapter,
   url |-> study_info.lichess_url,
   average_distance |-> study_info.average_distance,
   distinct_ply_matches |-> study_info.distinct_ply_matches,
   chapter_text_content |-> Get(study_info, "chapter_text_content", <<>>)]

\* Lines 215-252: the exception phase 2 ends with ("none" when it returns)
\* and top_studies_for_prompt.  An attribute the module does not define
\* raises AttributeError, a keyword the function does not take raises
\* TypeError, a key an entry does not have raises KeyError.
StudyRetrievalPhase(all_study_fens_data, game_fens) ==
  IF "load_chapter_texts" \notin FenRetrieverNames
  THEN [error |-> "AttributeError", top |-> <<>>]
  ELSE IF all_study_fens_data = <<>> \/ game_fens = <<>>
  THEN [error |-> "none", top |-> <<>>]
  ELSE IF ~(RankStudiesKeywords \subseteq RankStudiesParameters)
  THEN [error |-> "TypeError", top |-> <<>>]
  ELSE
    LET ranked == rank_studies_for_game(game_fens, all_study_fens_data, 1)
    IN IF ranked # <<>> /\ "lichess_url" \notin DOMAIN ranked[1]
       THEN [error |-> "KeyError", top |-> <<>>]
       ELSE [error |-> "none",
             top |-> [i \in 1..Min2(PromptStudies, Len(ranked)) |->
                        PromptEntry(ranked[i])]]

\* ------------------------------------------------------------ corpus build
\* What python-chess hands to process_single_study_data.  A board is a rank of
\* two squares with one king on it, whose only legal move takes it to the
\* other square; it carries the side to move and the two move counters as a
\* chess.Board does.
StandardStart ==
  [placement |-> <<"K", "1">>, turn |-> "w", halfmove |-> 0, fullmove |-> 1]

\* A chapter set up from a [FEN "..."] header: black to move at move 3.
CustomStart ==
  [placement |-> <<"1", "K">>, turn |-> "b", halfmove |-> 0, fullmove |-> 3]

\* board.push(move) for the board's one legal move.
Push(board) ==
  [placement |-> IF board.placement = <<"K", "1">> THEN <<"1", "K">>
                 ELSE <<"K", "1">>,
   turn |-> IF board.turn = "w" THEN "b" ELSE "w",
   halfmove |-> board.halfmove + 1,
   fullmove |-> IF board.turn = "b" THEN board.fullmove + 1
                ELSE board.fullmove]

\* board.fen()
BoardFullFen(board) ==
  board.placement
    \o <<" ", board.turn, " ", "-", " ", "-", " ",
         DigitChar(board.halfmove), " ", DigitChar(board.fullmove)>>

\* board.ply(): 2 * (fullmove_number - 1) + (turn == BLACK)
BoardPly(board) ==
  2 * (board.fullmove - 1) + (IF board.turn = "b" THEN 1 ELSE 0)

\* board.san(move) for the board's one legal move.
BoardSan(board) ==
  IF board.placement = <<"K", "1">> THEN <<"K", "b", "1">>
  ELSE <<"K", "a", "1">>

\* The board in front of the k-th move of a game (k from 1).
RECURSIVE BoardBefore(_, _)
BoardBefore(start, k) == IF k <= 1 THEN start ELSE Push(BoardBefore(start, k - 1))

\* A game as chess.pgn.read_game returns it: its headers (with or without an
\* Event header), its starting board, the comment of its root node, the
\* comment carried by each of its moves and the number of moves of its
\* mainline.
Games ==
  { [headers |-> h, start |-> k.start, root_comment |-> k.root_comment,
     move_comment |-> k.move_comment, nmoves |-> n] :
      h \in { [Site |-> <<"?">>], [Event |-> <<"A">>, Site |-> <<"?">>] },
      k \in { [start |-> StandardStart, root_comment |-> <<>>,
               move_comment |-> <<"c">>],
              [start |-> CustomStart, root_comment |-> <<"i">>,
               move_comment |-> <<>>] },
      n \in 0..MaxMoves }

\* The place where python-chess raises while a study is processed: nowhere,
\* in read_game for a chapter, in the comment loop of a chapter, or when the
\* move `at` of a chapter is pushed.
NoFault == [chapter |-> 0, stage |-> "none", at |-> 0]

FaultsOf(games) ==
  {NoFault}
    \cup { [chapter |-> c, stage |-> st, at |-> 0] :
             c \in 1..Len(games), st \in {"read", "comments"} }
    \cup { f \in [chapter : 1..Len(games), stage : {"push"}, at : 1..MaxMoves] :
             f.at <= games[f.chapter].nmoves }

\* The 'pgn' value of a study: None, the empty string, or a text with the
\* games read_game finds in it and the place where reading it raises.
PgnValues(games_read) ==
  { [kind |-> "None", games |-> <<>>, fault |-> NoFault],
    [kind |-> "empty", games |-> <<>>, fault |-> NoFault] }
    \cup UNION { { [kind |-> "text", games |-> g, fault |-> f] : f \in FaultsOf(g) } :
                 g \in SeqsUpTo(games_read, MaxChapters) }

\* not pgn_string
PgnFalsy(pgn) == pgn.kind \in {"None", "empty"}

TextChapter == <<"C", "h", "a", "p", "t", "e", "r", " ">>
TextInitialComment ==
  <<"I", "n", "i", "t", "i", "a", "l", " ", "C", "h", "a", "p", "t", "e", "r",
    " ", "C", "o", "m", "m", "e", "n", "t", ":", " ">>
TextUnknownId == <<"U", "N", "K", "N", "O", "W", "N", "_", "I", "D">>
TextUnknownStudy ==
  <<"U", "n", "k", "n", "o", "w", "n", " ", "S", "t", "u", "d", "y">>

\* An identifier made of the Event header alone.
ChapterIdentifierWithoutTitle(study_title, headers, chapter_num) ==
  Get(headers, "Event", TextChapter \o <<DigitChar(chapter_num)>>)

\* Lines 54-55: f"{study_title} - {Event header, or Chapter n}"
ChapterIdentifier(study_title, headers, chapter_num) ==
  study_title \o <<" ", "-", " ">>
    \o Get(headers, "Event", TextChapter \o <<DigitChar(chapter_num)>>)

\* Lines 66-76: the line of the comment on the move pushed on board.
MoveCommentLine(board, comment) ==
  <<DigitChar(board.fullmove)>>
    \o (IF board.turn = "w" THEN <<".", " ">> ELSE <<".", ".", ".", " ">>)
    \o BoardSan(board) \o <<":", " ">> \o comment

\* Lines 58-79: the formatted comments of a game; as the source reads the
\* nodes, the first is the starting position and the others are the moves.
FormattedComments(game) ==
  (IF game.root_comment # <<>>
   THEN << TextInitialComment \o game.root_comment >> ELSE <<>>)
    \o (IF game.move_comment = <<>> THEN <<>>
        ELSE [k \in 1..game.nmoves |->
                MoveCommentLine(BoardBefore(game.start, k), game.move_comment)])

\* "\n".join(lines)
RECURSIVE JoinLines(_)
JoinLines(lines) ==
  IF lines = <<>> THEN <<>>
  ELSE IF Len(lines) = 1 THEN lines[1]
  ELSE Head(lines) \o <<"\n">> \o JoinLines(Tail(lines))

\* dict[key] = value on a dict kept as a list of entries in insertion order.
DictSet(dict, key, value) ==
  IF \E i \in 1..Len(dict) : dict[i].key = key
  THEN [i \in 1..Len(dict) |->
          IF dict[i].key = key THEN [key |-> key, value |-> value] ELSE dict[i]]
  ELSE Append(dict, [key |-> key, value |-> value])

\* A record that does not say which study it comes from.
FenRecordUnknownStudy(full_fen, study_id, chapter_identifier, ply) ==
  [dotted_fen |-> convert_fen_to_dotted_pieces(full_fen),
   study_id |-> TextUnknownId,
   chapter |-> chapter_identifier,
   ply |-> ply,
   original_fen |-> full_fen]

\* The dict appended at lines 87-93 and 99-105.
FenRecord(full_fen, study_id, chapter_identifier, ply) ==
  [dotted_fen |-> convert_fen_to_dotted_pieces(full_fen),
   study_id |-> study_id,
   chapter |-> chapter_identifier,
   ply |-> ply,
   original_fen |-> full_fen]

\* An exception handler that gives up what was processed.
OnExceptionDropAll(fens, texts) == << <<>>, <<>> >>

\* Lines 106-110: the handler returns what was processed so far.
OnException(fens, texts) == << fens, texts >>

\* Lines 95-105: the moves from number k on are pushed and recorded; `at` is
\* the move whose push raises (0 for none).  The result is the list of
\* records and whether the loop raised.
RECURSIVE RecordMoves(_, _, _, _, _, _, _)
RecordMoves(board, k, nmoves, at, study_id, chapter_identifier, fens) ==
  IF k > nmoves THEN [fens |-> fens, raised |-> FALSE]
  ELSE IF k = at THEN [fens |-> fens, raised |-> TRUE]
  ELSE LET pushed == Push(board)
       IN RecordMoves(pushed, k + 1, nmoves, at, study_id, chapter_identifier,
                      Append(fens,
                             FenRecord(BoardFullFen(pushed), study_id,
                                       chapter_identifier, BoardPly(pushed))))

\* Lines 47-112: the loop over the games of the text, from the game numbered
\* chapter_num on.
RECURSIVE ReadChapters(_, _, _, _, _, _)
ReadChapters(pgn, chapter_num, study_id, study_title, fens, texts) ==
  IF pgn.fault.chapter = chapter_num /\ pgn.fault.stage = "read"
  THEN OnException(fens, texts)
  ELSE IF chapter_num > Len(pgn.games) THEN << fens, texts >>
  ELSE
    LET game == pgn.games[chapter_num]
        chapter_identifier ==
          ChapterIdentifier(study_title, game.headers, chapter_num)
        faulty == pgn.fault.chapter = chapter_num
        texts1 == DictSet(texts, chapter_identifier,
                          JoinLines(FormattedComments(game)))
        fens1 == Append(fens,
                        FenRecord(BoardFullFen(game.start), study_id,
                                  chapter_identifier, 0))
        moved == RecordMoves(game.start, 1, game.nmoves,
                             IF faulty /\ pgn.fault.stage = "push"
                             THEN pgn.fault.at ELSE 0,
                             study_id, chapter_identifier, fens1)
    IN IF faulty /\ pgn.fault.stage = "comments" THEN OnException(fens, texts)
       ELSE IF moved.raised THEN OnException(moved.fens, texts1)
       ELSE ReadChapters(pgn, chapter_num + 1, study_id, study_title,
                         moved.fens, texts1)

\* process_single_study_data(study_item): the tuple it returns.
process_single_study_data(study_item) ==
  LET study_id == Get(study_item, "study_id", TextUnknownId)
      pgn_string == Get(study_item, "pgn",
                        [kind |-> "None", games |-> <<>>, fault |-> NoFault])
      study_title == Get(study_item, "title", TextUnknownStudy)
  IN IF PgnFalsy(pgn_string) THEN << <<>>, <<>> >>
     ELSE ReadChapters(pgn_string, 1, study_id, study_title, <<>>, <<>>)

\* The study items of the input file: with every key, or without one of them.
StudyItems(ids) ==
  LET pgns == PgnValues(Games)
      plain == { q \in pgns : Len(q.games) = 1 /\ q.fault = NoFault }
  IN { [study_id |-> id, title |-> <<"T">>, pgn |-> p] : id \in ids, p \in pgns }
       \cup { [title |-> <<"T">>, pgn |-> p] : p \in plain }
       \cup { [study_id |-> id, pgn |-> p] : id \in ids, p \in plain }
       \cup { [study_id |-> id, title |-> <<"T">>] : id \in ids }

\* The chapters of the studies handed to main, one move each: from the
\* standard start with and without an Event header, and from a set-up
\* position, with other comments, without one.
BuildGames ==
  { g \in Games :
      /\ g.nmoves = 1
      /\ g.start = StandardStart \/ "Event" \notin DOMAIN g.headers }

\* The 'pgn' values of those studies: none, or MaxChapters chapters alike,
\* read without a raise or, from the standard start, with a raise at a push
\* of any one chapter.
BuildPgns ==
  { p \in PgnValues(BuildGames) :
      \/ p.kind = "None"
      \/ /\ Len(p.games) = MaxChapters
         /\ \A c \in 1..MaxChapters : p.games[c] = p.games[1]
         /\ \/ p.fault = NoFault
            \/ p.fault.stage = "push" /\ p.games[1].start = StandardStart }

BuildTitles == { <<"T">>, <<"U">> }

\* json.load(f), line 118: a non-empty list of studies with their own ids.
BuildStudies ==
  UNION { { [i \in 1..n |->
               [study_id |-> <<"s", DigitChar(i)>>, title |-> f[i].title,
                pgn |-> f[i].pgn]] :
              f \in [1..n -> [title : BuildTitles, pgn : BuildPgns]] } :
          n \in 1..MaxStudies }

\* A merge that appends a study's list back to front.
ExtendFensReversed(all_fens, single_study_fens_list) ==
  all_fens
    \o [k \in 1..Len(single_study_fens_list) |->
          single_study_fens_list[Len(single_study_fens_list) + 1 - k]]

\* A merge that keeps the last study's list alone.
ExtendFensReplacing(all_fens, single_study_fens_list) ==
  single_study_fens_list

\* Lines 141-142: if single_study_fens_list: all_processed_fens.extend(...)
ExtendFens(all_fens, single_study_fens_list) ==
  IF single_study_fens_list # <<>> THEN all_fens \o single_study_fens_list
  ELSE all_fens

\* Lines 143-144: if single_study_chapter_texts_map:
\* all_chapter_texts_map.update(...), entry by entry in the dict's order.
RECURSIVE UpdateTexts(_, _)
UpdateTexts(all_texts, single_study_chapter_texts_map) ==
  IF single_study_chapter_texts_map = <<>> THEN all_texts
  ELSE UpdateTexts(DictSet(all_texts, Head(single_study_chapter_texts_map).key,
                           Head(single_study_chapter_texts_map).value),
                   Tail(single_study_chapter_texts_map))

\* ------------------------------------------------------------------ state
VARIABLES
  all_fens_data,            \* the corpus: a list of records
  pc,                       \* "idle", "find_done", "rank_loop", "rank_done",
                            \* "dist_done"
  query_dotted_fen,         \* find_closest_fens_naive: its query
  top_n,                    \* top_n / top_n_ply_matches of the running call
  closest_fens,             \* find_closest_fens_naive: its return value
  user_game_fens_list,      \* rank_studies_for_game: its query sequence
  ply_idx,                  \* rank_studies_for_game: the loop index
  study_chapter_relevance,  \* rank_studies_for_game: the accumulator
  ranked_studies,           \* rank_studies_for_game: its return value
  dist_args,                \* Levenshtein.distance: the two strings
  dist_out,                 \* <<distance(a, b), distance(b, a)>>
  enc_board,                \* the snapshot that was encoded, <<>> for a text
  enc_args,                 \* convert_fen_to_dotted_pieces: two inputs
  enc_out,                  \* their two return values
  enc_error,                \* the exception the calls raised, "none" if none
  study_item,               \* process_single_study_data: its argument
  study_result,             \* its return value, <<"pending">> before
  all_studies_data,         \* main: the studies of the input file
  num_processes,            \* main: os.cpu_count(), the size of the pool
  pool_tasks,               \* the pool: "queued", "running" or "done" per study
  results_iterator,         \* the results completed and not yet iterated
  all_processed_fens,       \* main: the merged list of records
  all_chapter_texts_map,    \* main: the merged chapter texts
  progress,                 \* main: the results the tqdm loop has taken
  all_game_fens_for_study_retrieval,  \* the analyzer: the FENs of the game
  chapter_texts_file,       \* the chapter texts on disk, or no such file
  top_studies_for_prompt,   \* the analyzer: the studies it selected
  analyzer_error,           \* the exception the analyzer raised, "none" if none
  rank_calls,               \* concurrent rank_studies_for_game calls: the
                            \* local variables of each
  dict_heap                 \* the dict objects those calls created

vars ==
  << all_fens_data, pc, query_dotted_fen, top_n, closest_fens,
     user_game_fens_list, ply_idx, study_chapter_relevance, ranked_studies,
     dist_args, dist_out, enc_board, enc_args, enc_out, enc_error,
     study_item, study_result, all_studies_data, num_processes, pool_tasks,
     results_iterator, all_processed_fens, all_chapter_texts_map, progress,
     all_game_fens_for_study_retrieval, chapter_texts_file,
     top_studies_for_prompt, analyzer_error, rank_calls, dict_heap >>

findVars == << query_dotted_fen, closest_fens >>
rankVars ==
  << user_game_fens_list, ply_idx, study_chapter_relevance, ranked_studies >>
distVars == << dist_args, dist_out >>
encVars == << enc_board, enc_args, enc_out, enc_error >>
studyVars == << study_item, study_result >>
buildVars ==
  << all_studies_data, num_processes, pool_tasks, results_iterator,
     all_processed_fens, all_chapter_texts_map, progress >>
analyzeVars ==
  << all_game_fens_for_study_retrieval, chapter_texts_file,
     top_studies_for_prompt, analyzer_error >>
callsVars == << rank_calls, dict_heap >>

Quiet ==
  /\ pc = "idle"
  /\ query_dotted_fen = <<>>
  /\ top_n = 0
  /\ closest_fens = <<>>
  /\ user_game_fens_list = <<>>
  /\ ply_idx = 0
  /\ study_chapter_relevance = <<>>
  /\ ranked_studies = <<>>
  /\ dist_args = << <<>>, <<>> >>
  /\ dist_out = << 0, 0 >>
  /\ enc_board = <<>>
  /\ enc_args = << <<>>, <<>> >>
  /\ enc_out = << <<>>, <<>> >>
  /\ enc_error = "none"
  /\ study_result = <<"pending">>
  /\ results_iterator = <<>>
  /\ all_processed_fens = <<>>
  /\ all_chapter_texts_map = <<>>
  /\ progress = 0
  /\ top_studies_for_prompt = <<>>
  /\ analyzer_error = "none"
  /\ dict_heap = <<>>

\* No study is being processed.
NoStudy == study_item = [study_id |-> <<>>]

\* The analyzer is not running and no concurrent calls are.
NoAnalysis ==
  /\ all_game_fens_for_study_retrieval = <<>>
  /\ chapter_texts_file = [present |-> FALSE, map |-> <<>>]
  /\ rank_calls = <<>>

\* main is not running.
NoBuild ==
  /\ all_studies_data = <<>> /\ num_processes = 0 /\ pool_tasks = <<>>
  /\ NoAnalysis

\* Any corpus load_processed_fens can hand over, the empty list included.
Init ==
  /\ all_fens_data \in SeqsUpTo(CorpusRecords, MaxCorpus)
  /\ Quiet
  /\ NoStudy
  /\ NoBuild

\* ---------------------------------------------------------------- actions
\* find_closest_fens_naive(q, all_fens_data, top_n=k), lines 37-54.
FindClosest(q, k) ==
  /\ pc = "idle"
  /\ pc' = "find_done"
  /\ query_dotted_fen' = q
  /\ top_n' = k
  /\ closest_fens' = find_closest_fens_naive(q, all_fens_data, k)
  /\ all_fens_data' = CorpusAfterFind(q, all_fens_data, k)
  /\ UNCHANGED << rankVars, distVars, encVars, studyVars, buildVars,
                  analyzeVars, callsVars >>

\* rank_studies_for_game(fens, all_fens_data, top_n_ply_matches=k) up to the
\* loop: the guard of lines 88-90 returns at once.
RankCall(fens, k) ==
  /\ pc = "idle"
  /\ user_game_fens_list' = fens
  /\ top_n' = k
  /\ ply_idx' = 0
  /\ study_chapter_relevance' = <<>>
  /\ ranked_studies' = <<>>
  /\ pc' = IF all_fens_data = <<>> \/ fens = <<>> THEN "rank_done"
           ELSE "rank_loop"
  /\ UNCHANGED << all_fens_data, findVars, distVars, encVars, studyVars,
                  buildVars, analyzeVars, callsVars >>

\* One iteration of the loop of lines 96-111.
RankPly ==
  /\ pc = "rank_loop"
  /\ ply_idx < Len(user_game_fens_list)
  /\ study_chapter_relevance' =
       ProcessPly(study_chapter_relevance, user_game_fens_list[ply_idx + 1],
                  all_fens_data, top_n, ply_idx)
  /\ all_fens_data' =
       CorpusAfterPly(user_game_fens_list[ply_idx + 1], all_fens_data, top_n)
  /\ ply_idx' = ply_idx + 1
  /\ UNCHANGED << pc, top_n, user_game_fens_list, ranked_studies, findVars,
                  distVars, encVars, studyVars, buildVars, analyzeVars,
                  callsVars >>

\* Lines 113-140: the loop has ended, the entries are built, sorted, returned.
RankReturn ==
  /\ pc = "rank_loop"
  /\ ply_idx = Len(user_game_fens_list)
  /\ ranked_studies' = RankResult(study_chapter_relevance)
  /\ pc' = "rank_done"
  /\ UNCHANGED << all_fens_data, top_n, user_game_fens_list, ply_idx,
                  study_chapter_relevance, findVars, distVars, encVars,
                  studyVars, buildVars, analyzeVars, callsVars >>

\* Levenshtein.distance(a, b) and Levenshtein.distance(b, a), line 48.
Distance(a, b) ==
  /\ pc = "idle"
  /\ pc' = "dist_done"
  /\ dist_args' = << a, b >>
  /\ dist_out' = << LevenshteinDistance(a, b), LevenshteinDistance(b, a) >>
  /\ UNCHANGED << all_fens_data, top_n, findVars, rankVars, encVars,
                  studyVars, buildVars, analyzeVars, callsVars >>

Next ==
  \/ \E q \in QueryDotted, k \in 1..MaxTopN : FindClosest(q, k)
  \/ \E fens \in SeqsUpTo(GameFens, MaxQuery), k \in 1..MaxTopN :
       RankCall(fens, k)
  \/ RankPly
  \/ RankReturn

Spec == Init /\ [][Next]_vars

\* The distance on its own, over every pair of strings of DistStrings.
InitDistance == all_fens_data = <<>> /\ Quiet /\ NoStudy /\ NoBuild

NextDistance == \E a \in DistStrings, b \in DistStrings : Distance(a, b)

SpecDistance == InitDistance /\ [][NextDistance]_vars

\* convert_fen_to_dotted_pieces on two FENs that share their first field and
\* differ in what follows it (lines 15-26; the function has no raise).
Encode(board, placement, tail_a, tail_b) ==
  /\ pc = "idle"
  /\ pc' = "enc_done"
  /\ enc_board' = board
  /\ enc_args' = << placement \o tail_a, placement \o tail_b >>
  /\ enc_out' = << convert_fen_to_dotted_pieces(placement \o tail_a),
                   convert_fen_to_dotted_pieces(placement \o tail_b) >>
  /\ enc_error' = "none"
  /\ UNCHANGED << all_fens_data, top_n, findVars, rankVars, distVars,
                  studyVars, buildVars, analyzeVars, callsVars >>

\* The encoder called with any text.
EncodeText ==
  \E text \in FenTexts, tail_a \in FenTails, tail_b \in FenTails :
    Encode(<<>>, text, tail_a, tail_b)

\* The encoder called with the FEN of a board snapshot.
EncodeBoard ==
  \E board \in SmallBoards \cup {StartBoard},
     tail_a \in FenTails, tail_b \in FenTails :
    Encode(board, BoardFen(board), tail_a, tail_b)

InitEncode == all_fens_data = <<>> /\ Quiet /\ NoStudy /\ NoBuild

NextEncode == EncodeText \/ EncodeBoard

SpecEncode == InitEncode /\ [][NextEncode]_vars

\* process_single_study_data(study_item), lines 28-112, on one study.
ProcessStudy ==
  /\ pc = "idle"
  /\ pc' = "study_done"
  /\ study_result' = process_single_study_data(study_item)
  /\ UNCHANGED << all_fens_data, top_n, study_item, findVars, rankVars,
                  distVars, encVars, buildVars, analyzeVars, callsVars >>

InitStudy ==
  /\ all_fens_data = <<>>
  /\ Quiet
  /\ study_item \in StudyItems({ <<"s", "1">> })
  /\ NoBuild

NextStudy == ProcessStudy

SpecStudy == InitStudy /\ [][NextStudy]_vars

\* main_analyzer.py, lines 215-252: the study retrieval of the analyzer
\* on the FENs of a game, the corpus and the chapter texts on disk.
StudyRetrieval ==
  /\ pc = "idle"
  /\ pc' = "analyze_done"
  /\ analyzer_error' =
       StudyRetrievalPhase(all_fens_data, all_game_fens_for_study_retrieval).error
  /\ top_studies_for_prompt' =
       StudyRetrievalPhase(all_fens_data, all_game_fens_for_study_retrieval).top
  /\ UNCHANGED << all_fens_data, top_n, findVars, rankVars, distVars, encVars,
                  studyVars, buildVars, callsVars,
                  all_game_fens_for_study_retrieval, chapter_texts_file >>

InitAnalyze ==
  /\ all_fens_data \in SeqsUpTo(CorpusRecords, MaxCorpus)
  /\ Quiet
  /\ NoStudy
  /\ all_studies_data = <<>> /\ num_processes = 0 /\ pool_tasks = <<>>
  /\ rank_calls = <<>>
  /\ all_game_fens_for_study_retrieval \in SeqsUpTo(GameFens, MaxQuery)
  /\ chapter_texts_file \in ChapterTextFiles

NextAnalyze == StudyRetrieval

SpecAnalyze == InitAnalyze /\ [][NextAnalyze]_vars

\* Two callers run rank_studies_for_game over the same corpus, each in its
\* own thread; a step of one is taken between any two steps of the other.
\* Lines 81-93: caller c makes its call and the call creates its dict.  Both
\* callers pass the same top_n_ply_matches.
CallRank(c, fens, k) ==
  /\ pc = "idle"
  /\ rank_calls[c].at = "none"
  /\ \A d \in CallIds :
       rank_calls[d].at # "none" => rank_calls[d].top_n_ply_matches = k
  /\ dict_heap' = AllocDict(dict_heap)
  /\ rank_calls' =
       [rank_calls EXCEPT ![c] =
          [at |-> "loop", user_game_fens_list |-> fens,
           top_n_ply_matches |-> k, ply_idx |-> 0,
           study_chapter_relevance |-> Len(AllocDict(dict_heap)),
           ranked_studies |-> <<>>]]
  /\ UNCHANGED << all_fens_data, pc, top_n, findVars, rankVars, distVars,
                  encVars, studyVars, buildVars, analyzeVars >>

\* Lines 96-111: one iteration of the loop of caller c.
CallPly(c) ==
  LET call == rank_calls[c]
  IN /\ pc = "idle"
     /\ call.at = "loop"
     /\ call.ply_idx < Len(call.user_game_fens_list)
     /\ dict_heap' =
          [dict_heap EXCEPT ![call.study_chapter_relevance] =
             ProcessPly(@, call.user_game_fens_list[call.ply_idx + 1],
                        all_fens_data, call.top_n_ply_matches, call.ply_idx)]
     /\ all_fens_data' =
          CorpusAfterPly(call.user_game_fens_list[call.ply_idx + 1],
                         all_fens_data, call.top_n_ply_matches)
     /\ rank_calls' = [rank_calls EXCEPT ![c].ply_idx = @ + 1]
     /\ UNCHANGED << pc, top_n, findVars, rankVars, distVars, encVars,
                     studyVars, buildVars, analyzeVars >>

\* Lines 113-140: the loop of caller c has ended and its call returns.
CallReturn(c) ==
  LET call == rank_calls[c]
  IN /\ pc = "idle"
     /\ call.at = "loop"
     /\ call.ply_idx = Len(call.user_game_fens_list)
     /\ rank_calls' =
          [rank_calls EXCEPT
             ![c].ranked_studies =
               RankResult(dict_heap[call.study_chapter_relevance]),
             ![c].at = "done"]
     /\ UNCHANGED << all_fens_data, pc, top_n, findVars, rankVars, distVars,
                     encVars, studyVars, buildVars, analyzeVars, dict_heap >>

InitCalls ==
  /\ all_fens_data \in CallsCorpora
  /\ Quiet
  /\ NoStudy
  /\ all_studies_data = <<>> /\ num_processes = 0 /\ pool_tasks = <<>>
  /\ all_game_fens_for_study_retrieval = <<>>
  /\ chapter_texts_file = [present |-> FALSE, map |-> <<>>]
  /\ rank_calls = [c \in CallIds |-> NotCalled]

NextCalls ==
  \/ \E c \in CallIds, fens \in CallsQueries, k \in CallsTopN :
       CallRank(c, fens, k)
  \/ \E c \in CallIds : CallPly(c)
  \/ \E c \in CallIds : CallReturn(c)

SpecCalls == InitCalls /\ [][NextCalls]_vars

\* The pool of main, lines 135-144.  imap_unordered hands the studies to the
\* num_processes workers in the order of the list, a worker's result is ready
\* when its call returns, and the loop of main takes the results in the order
\* in which they became ready.
NumberOf(status) ==
  Cardinality({ i \in 1..Len(pool_tasks) : pool_tasks[i] = status })

\* A free worker takes the next study of the list.
StartStudy(i) ==
  /\ pc = "idle"
  /\ pool_tasks[i] = "queued"
  /\ \A j \in 1..(i - 1) : pool_tasks[j] # "queued"
  /\ NumberOf("running") < num_processes
  /\ pool_tasks' = [pool_tasks EXCEPT ![i] = "running"]
  /\ UNCHANGED << all_fens_data, pc, top_n, findVars, rankVars, distVars,
                  encVars, studyVars, analyzeVars, callsVars,
                  all_studies_data, num_processes, results_iterator,
                  all_processed_fens, all_chapter_texts_map, progress >>

\* A worker's call of process_single_study_data returns.
FinishStudy(i) ==
  /\ pc = "idle"
  /\ pool_tasks[i] = "running"
  /\ pool_tasks' = [pool_tasks EXCEPT ![i] = "done"]
  /\ results_iterator' =
       Append(results_iterator, process_single_study_data(all_studies_data[i]))
  /\ UNCHANGED << all_fens_data, pc, top_n, findVars, rankVars, distVars,
                  encVars, studyVars, analyzeVars, callsVars,
                  all_studies_data, num_processes, all_processed_fens,
                  all_chapter_texts_map, progress >>

\* One iteration of the loop of lines 140-144 on the next ready result.
MergeResult ==
  /\ pc = "idle"
  /\ results_iterator # <<>>
  /\ all_processed_fens' = ExtendFens(all_processed_fens, Head(results_iterator)[1])
  /\ all_chapter_texts_map' =
       UpdateTexts(all_chapter_texts_map, Head(results_iterator)[2])
  /\ results_iterator' = Tail(results_iterator)
  /\ progress' = progress + 1
  /\ UNCHANGED << all_fens_data, pc, top_n, findVars, rankVars, distVars,
                  encVars, studyVars, analyzeVars, callsVars,
                  all_studies_data, num_processes, pool_tasks >>

\* The iterator is exhausted: the loop ends and main goes on to line 146.
EndOfResults ==
  /\ pc = "idle"
  /\ \A i \in 1..Len(pool_tasks) : pool_tasks[i] = "done"
  /\ results_iterator = <<>>
  /\ pc' = "build_done"
  /\ UNCHANGED << all_fens_data, top_n, findVars, rankVars, distVars, encVars,
                  studyVars, buildVars, analyzeVars, callsVars >>

InitBuild ==
  /\ all_fens_data = <<>>
  /\ Quiet
  /\ NoStudy
  /\ NoAnalysis
  /\ all_studies_data \in BuildStudies
  /\ num_processes \in { 1, MaxProcesses }
  /\ pool_tasks = [i \in 1..Len(all_studies_data) |-> "queued"]

NextBuild ==
  \/ \E i \in 1..Len(all_studies_data) : StartStudy(i)
  \/ \E i \in 1..Len(all_studies_data) : FinishStudy(i)
  \/ MergeResult
  \/ EndOfResults

SpecBuild == InitBuild /\ [][NextBuild]_vars

\* ================================================================= claims
\* What the ranker's call was given, read back from the state.
Encoded(i) == convert_fen_to_dotted_pieces(user_game_fens_list[i + 1])

\* The matcher's answer for the query entry at index i (from 0); an entry
\* with an empty encoding has none.
PlyMatches(i) ==
  IF Encoded(i) = <<>> THEN <<>>
  ELSE find_closest_fens_naive(Encoded(i), all_fens_data, top_n)

\* The matcher's answers of the whole call, by query index.
AllPlyMatches == [i \in 0..(Len(user_game_fens_list) - 1) |-> PlyMatches(i)]

\* Every (ply, top-K slot) hit among the answers pm.
HitsIn(pm) ==
  { h \in (DOMAIN pm) \X (1..Len(all_fens_data)) : h[2] <= Len(pm[h[1]]) }

Hits == HitsIn(AllPlyMatches)

HitKey(pm, h) ==
  << all_fens_data[pm[h[1]][h[2]].record].study_id,
     all_fens_data[pm[h[1]][h[2]].record].chapter >>

RECURSIVE SumHitDist(_, _)
SumHitDist(pm, S) ==
  IF S = {} THEN 0
  ELSE LET h == CHOOSE x \in S : TRUE
       IN pm[h[1]][h[2]].dist + SumHitDist(pm, S \ {h})

EntryKey(e) == << e.study_id, e.chapter >>

\* C1: the list rank_studies_for_game returns is ordered by
\* distinct_ply_matches descending and, among entries with equal
\* distinct_ply_matches, by average_distance ascending.
C1_RankedOrder ==
  pc = "rank_done" =>
    \A i \in 1..Len(ranked_studies), j \in 1..Len(ranked_studies) :
      i < j =>
        \/ ranked_studies[i].distinct_ply_matches
             > ranked_studies[j].distinct_ply_matches
        \/ /\ ranked_studies[i].distinct_ply_matches
                = ranked_studies[j].distinct_ply_matches
           /\ FloatLeq(ranked_studies[i].average_distance,
                       ranked_studies[j].average_distance)

\* Breadth beats closeness: an entry that matched more plies stands before an
\* entry with a strictly smaller average distance.
C1_Witness ==
  /\ pc = "rank_done"
  /\ \E i \in 1..Len(ranked_studies), j \in 1..Len(ranked_studies) :
       /\ i < j
       /\ ranked_studies[i].distinct_ply_matches
            > ranked_studies[j].distinct_ply_matches
       /\ FloatLess(ranked_studies[j].average_distance,
                    ranked_studies[i].average_distance)

\* C2: rank_studies_for_game emits exactly one entry per (study_id, chapter)
\* key hit in the top-K result of at least one query ply and no other entry;
\* the entry's total_close_references is the number of (ply, slot) hits on the
\* key, its distinct_ply_matches the number of distinct plies that hit it, its
\* average_distance the sum of the hit distances over total_close_references.
C2_OneEntryPerHitKey ==
  pc = "rank_done" =>
    LET pm == AllPlyMatches
        hits == HitsIn(pm)
    IN /\ \A i \in 1..Len(ranked_studies), j \in 1..Len(ranked_studies) :
            EntryKey(ranked_studies[i]) = EntryKey(ranked_studies[j]) => i = j
       /\ { EntryKey(ranked_studies[i]) : i \in 1..Len(ranked_studies) }
            = { HitKey(pm, h) : h \in hits }
       /\ \A i \in 1..Len(ranked_studies) :
            LET e == ranked_studies[i]
                on == { h \in hits : HitKey(pm, h) = EntryKey(e) }
            IN /\ e.total_close_references = Cardinality(on)
               /\ e.distinct_ply_matches = Cardinality({ h[1] : h \in on })
               /\ e.average_distance
                    = Quotient(SumHitDist(pm, on), Cardinality(on))

\* A key hit twice by one ply and once by another, at different distances,
\* beside a second key.
C2_Witness ==
  /\ pc = "rank_done"
  /\ Len(ranked_studies) >= 2
  /\ \E i \in 1..Len(ranked_studies) :
       /\ ranked_studies[i].total_close_references = 3
       /\ ranked_studies[i].distinct_ply_matches = 2
       /\ ranked_studies[i].average_distance.den = 3

\* C3: distinct_ply_matches of every returned entry is at most the length of
\* the query sequence.
C3_DistinctAtMostQueryLength ==
  pc = "rank_done" =>
    \A i \in 1..Len(ranked_studies) :
      ranked_studies[i].distinct_ply_matches <= Len(user_game_fens_list)

\* The bound is attained by an entry that has more hits than plies.
C3_Witness ==
  /\ pc = "rank_done"
  /\ \E i \in 1..Len(ranked_studies) :
       /\ ranked_studies[i].distinct_ply_matches = Len(user_game_fens_list)
       /\ ranked_studies[i].total_close_references
            > ranked_studies[i].distinct_ply_matches

\* The distance of the query of the finished matcher call to corpus record r.
QueryDist(r) ==
  LevenshteinDistance(query_dotted_fen, all_fens_data[r].dotted_fen)

Returned == { closest_fens[i].record : i \in 1..Len(closest_fens) }

\* The slot of the result that holds corpus record r.
SlotOf(r) == CHOOSE i \in 1..Len(closest_fens) : closest_fens[i].record = r

\* C4: the distances find_closest_fens_naive returns are non-decreasing in
\* list order, each is the distance of its record to the query, and no record
\* left out is closer to the query than a returned one.
C4_ClosestSorted ==
  pc = "find_done" =>
    /\ \A i \in 1..Len(closest_fens) :
         /\ closest_fens[i].record \in 1..Len(all_fens_data)
         /\ closest_fens[i].dist = QueryDist(closest_fens[i].record)
    /\ \A i \in 1..Len(closest_fens), j \in 1..Len(closest_fens) :
         i < j => closest_fens[i].dist <= closest_fens[j].dist
    /\ \A r \in (1..Len(all_fens_data)) \ Returned :
         \A i \in 1..Len(closest_fens) : closest_fens[i].dist <= QueryDist(r)

\* The corpus is not in distance order, and a record that is strictly farther
\* than every returned one is left out.
C4_Witness ==
  /\ pc = "find_done"
  /\ closest_fens # <<>>
  /\ \E r1 \in 1..Len(all_fens_data), r2 \in 1..Len(all_fens_data) :
       r1 < r2 /\ QueryDist(r1) > QueryDist(r2)
  /\ \E r \in (1..Len(all_fens_data)) \ Returned :
       \A i \in 1..Len(closest_fens) : closest_fens[i].dist < QueryDist(r)

\* C5: records at equal distance to the query appear in corpus order: when r1
\* precedes r2 in the corpus at the same distance, r2 is returned only if r1
\* is, and r1 then stands before r2.
C5_TiesInCorpusOrder ==
  pc = "find_done" =>
    \A r1 \in 1..Len(all_fens_data), r2 \in 1..Len(all_fens_data) :
      (r1 < r2 /\ QueryDist(r1) = QueryDist(r2) /\ r2 \in Returned) =>
        (r1 \in Returned /\ SlotOf(r1) < SlotOf(r2))

\* A tie that the cut splits (the first record kept, the second dropped),
\* behind a closer record that comes later in the corpus.
C5_Witness ==
  /\ pc = "find_done"
  /\ \E r1 \in 1..Len(all_fens_data), r2 \in 1..Len(all_fens_data),
        r3 \in 1..Len(all_fens_data) :
       /\ r1 < r2 /\ r2 < r3
       /\ QueryDist(r1) = QueryDist(r2)
       /\ QueryDist(r3) < QueryDist(r1)
       /\ r1 \in Returned /\ r2 \notin Returned /\ r3 \in Returned

\* C6: for a positive top_n, find_closest_fens_naive returns exactly
\* min(top_n, size of the corpus) entries; when top_n exceeds the corpus size
\* every record is returned exactly once, sorted by distance; an empty corpus
\* gives an empty result.
C6_ResultLength ==
  pc = "find_done" =>
    /\ Len(closest_fens) = Min2(top_n, Len(all_fens_data))
    /\ top_n > Len(all_fens_data) =>
         /\ Returned = 1..Len(all_fens_data)
         /\ \A i \in 1..Len(closest_fens), j \in 1..Len(closest_fens) :
              /\ closest_fens[i].record = closest_fens[j].record => i = j
              /\ i < j => closest_fens[i].dist <= closest_fens[j].dist
    /\ all_fens_data = <<>> => closest_fens = <<>>

\* top_n exceeds the size of a corpus that is not empty.
C6_Witness ==
  /\ pc = "find_done"
  /\ all_fens_data # <<>>
  /\ top_n > Len(all_fens_data)
  /\ Len(closest_fens) = Len(all_fens_data)

\* The corpus records whose encoded string is the query string.
ExactMatches ==
  { r \in 1..Len(all_fens_data) : all_fens_data[r].dotted_fen = query_dotted_fen }

\* C7: when exactly one corpus record's encoded string equals the query, the
\* matcher returns that record first, with distance 0.
C7_ExactMatchFirst ==
  (pc = "find_done" /\ Cardinality(ExactMatches) = 1) =>
    /\ closest_fens # <<>>
    /\ closest_fens[1].record \in ExactMatches
    /\ closest_fens[1].dist = 0

\* The one exact match is the last of MaxCorpus records.
C7_Witness ==
  /\ pc = "find_done"
  /\ Len(all_fens_data) = MaxCorpus
  /\ ExactMatches = { MaxCorpus }
  /\ closest_fens[1].record = MaxCorpus

\* C8: the distance is symmetric and is zero exactly when the two strings are
\* equal.
C8_DistanceSymmetricIdentity ==
  pc = "dist_done" =>
    /\ dist_out[1] = dist_out[2]
    /\ dist_out[1] = 0 <=> dist_args[1] = dist_args[2]

\* Two different strings of different lengths, neither of them empty.
C8_Witness ==
  /\ pc = "dist_done"
  /\ Len(dist_args[1]) > Len(dist_args[2])
  /\ Len(dist_args[2]) > 0
  /\ dist_out[1] > Len(dist_args[1]) - Len(dist_args[2])

\* C9: rank_studies_for_game returns an empty list when the query sequence is
\* empty, when the corpus is empty, or when no query ply produces a hit.
C9_EmptyRanking ==
  ( /\ pc = "rank_done"
    /\ \/ user_game_fens_list = <<>>
       \/ all_fens_data = <<>>
       \/ Hits = {} ) => ranked_studies = <<>>

\* A query sequence without a hit against a corpus that has records: the loop
\* ran and every entry was skipped.
C9_Witness ==
  /\ pc = "rank_done"
  /\ Len(user_game_fens_list) = MaxQuery
  /\ all_fens_data # <<>>
  /\ ply_idx = Len(user_game_fens_list)
  /\ Hits = {}
  /\ ranked_studies = <<>>

\* C10: find_closest_fens_naive called with an empty query string returns an
\* empty result, for every corpus and every top_n.
C10_EmptyQueryEmptyResult ==
  (pc = "find_done" /\ query_dotted_fen = <<>>) => closest_fens = <<>>

\* ---------------------------------------------------------------- encoder
\* The first space-separated field of f: its longest prefix without a space.
FieldOf(f) ==
  SubSeq(f, 1,
         CHOOSE n \in 0..Len(f) :
           /\ \A i \in 1..n : f[i] # " "
           /\ n = Len(f) \/ f[n + 1] = " ")

\* The number of squares the character c stands for.
WidthOf(c) == IF IsDigit(c) THEN DigitValue(c) ELSE 1

\* The number of squares the first i - 1 characters of p stand for.
SquaresBefore(p, i) == SumSeq([j \in 1..(i - 1) |-> WidthOf(p[j])])

\* out is p with every digit d replaced by d placeholders and every other
\* character copied in place.
IsExpansionOf(out, p) ==
  /\ Len(out) = SquaresBefore(p, Len(p) + 1)
  /\ \A i \in 1..Len(p) :
       IF IsDigit(p[i])
       THEN \A k \in 1..DigitValue(p[i]) : out[SquaresBefore(p, i) + k] = "."
       ELSE out[SquaresBefore(p, i) + 1] = p[i]

\* C11: convert_fen_to_dotted_pieces takes the first space-separated field of
\* its input and returns it with every digit d replaced by exactly d "."
\* placeholders and every other character unchanged in place; the empty input
\* yields the empty string.
C11_DigitsExpandedInFirstField ==
  pc = "enc_done" =>
    \A k \in 1..2 :
      /\ IsExpansionOf(enc_out[k], FieldOf(enc_args[k]))
      /\ enc_args[k] = <<>> => enc_out[k] = <<>>

\* A piece, a count of two and further fields behind the first.
C11_Witness ==
  /\ pc = "enc_done"
  /\ Len(enc_args[1]) > Len(FieldOf(enc_args[1]))
  /\ \E i \in 1..Len(FieldOf(enc_args[1])), j \in 1..Len(FieldOf(enc_args[1])) :
       i < j /\ enc_args[1][i] = "2" /\ enc_args[1][j] = "p"
  /\ Len(enc_out[1]) > Len(FieldOf(enc_args[1]))

\* The number of squares of a snapshot.
SquareCount(board) == SumSeq([r \in 1..Len(board) |-> Len(board[r])])

\* The number of symbols of out that are not rank separators.
SquareSymbols(out) == Cardinality({ i \in 1..Len(out) : out[i] # "/" })

\* C12 as stated: for every valid board snapshot the encoded string has length
\* equal to the total square count of the board (64 for the starting layout).
C12_LengthIsSquareCount ==
  (pc = "enc_done" /\ enc_board # <<>>) =>
    Len(enc_out[1]) = SquareCount(enc_board)

\* C12 amended: the encoded string of a valid board snapshot holds one symbol
\* per square and one "/" between consecutive ranks, so its length is the
\* square count plus the number of ranks minus one; the standard starting
\* layout encodes to 71 characters, 64 of them square symbols.
C12_LengthIsSquaresPlusSeparators ==
  (pc = "enc_done" /\ enc_board # <<>>) =>
    /\ Len(enc_out[1]) = SquareCount(enc_board) + Len(enc_board) - 1
    /\ SquareSymbols(enc_out[1]) = SquareCount(enc_board)
    /\ enc_board = StartBoard =>
         (Len(enc_out[1]) = 71 /\ SquareSymbols(enc_out[1]) = 64)

\* The standard starting layout has been encoded.
C12_Witness ==
  /\ pc = "enc_done"
  /\ enc_board = StartBoard
  /\ Len(enc_out[1]) = 71
  /\ SubSeq(enc_out[1], 1, 8) = StartBoard[1]
  /\ SubSeq(enc_out[1], 19, 26) = StartBoard[3]

\* C13: two full FEN strings with the same piece-placement field encode to
\* the same string, whatever their side to move, castling rights, en-passant
\* square and move counters.
C13_OnlyPlacementMatters ==
  (pc = "enc_done" /\ FieldOf(enc_args[1]) = FieldOf(enc_args[2])) =>
    enc_out[1] = enc_out[2]

\* Two different FENs of one board, encoded to one string that is not empty.
C13_Witness ==
  /\ pc = "enc_done"
  /\ enc_board # <<>>
  /\ enc_args[1] # enc_args[2]
  /\ Len(enc_args[1]) > Len(FieldOf(enc_args[1]))
  /\ Len(enc_args[2]) > Len(FieldOf(enc_args[2]))
  /\ enc_out[1] = enc_out[2]
  /\ enc_out[1] # <<>>

\* C14: encoding a layout that contains an unrecognized symbol fails with an
\* EncodingError.
C14_MalformedRaises ==
  ( /\ pc = "enc_done"
    /\ \E i \in 1..Len(FieldOf(enc_args[1])) : enc_args[1][i] = "x" ) =>
    enc_error = "EncodingError"

\* ------------------------------------------------------------ corpus build
\* The study that was processed, read back from the state.
ItemPgn ==
  Get(study_item, "pgn", [kind |-> "None", games |-> <<>>, fault |-> NoFault])
ItemGames == ItemPgn.games
ItemFault == ItemPgn.fault

\* The list of records of the returned tuple.
StudyRecords == study_result[1]

\* The study was processed and python-chess raised nowhere.
WellFormedDone ==
  pc = "study_done" /\ ~PgnFalsy(ItemPgn) /\ ItemFault = NoFault

\* The number of records of the chapters in front of chapter c.
RecordsBefore(games, c) ==
  SumSeq([i \in 1..(c - 1) |-> games[i].nmoves + 1])

\* The encoded position of a game after k of its moves: the king is back on
\* its starting square after an even number of moves.
DottedAfter(game, k) ==
  IF (k % 2 = 0) <=> (game.start.placement = <<"K", "1">>)
  THEN <<"K", ".">> ELSE <<".", "K">>

\* '<study title> - <Event header, or Chapter n when absent>'
ExpectedIdentifier(c) ==
  Get(study_item, "title", TextUnknownStudy) \o <<" ", "-", " ">>
    \o (IF "Event" \in DOMAIN ItemGames[c].headers
        THEN ItemGames[c].headers.Event
        ELSE TextChapter \o <<DigitChar(c)>>)

\* The record of the returned list for chapter c after k moves.
RecordOf(c, k) == StudyRecords[RecordsBefore(ItemGames, c) + k + 1]

C16_PlyCountsFromSectionStart ==
  WellFormedDone =>
    \A c \in 1..Len(ItemGames) :
      \A k \in 0..ItemGames[c].nmoves : RecordOf(c, k).ply = k

\* C17: two different chapters of one study never get the same chapter
\* identifier.
C17_ChapterIdentifiersUnique ==
  WellFormedDone =>
    \A c1 \in 1..Len(ItemGames), c2 \in 1..Len(ItemGames) :
      c1 # c2 => RecordOf(c1, 0).chapter # RecordOf(c2, 0).chapter

\* The records the same study gives when nothing raises.
HealthyRecords ==
  process_single_study_data(
    [study_item EXCEPT !.pgn = [@ EXCEPT !.fault = NoFault]])[1]

\* The number of records appended before the place where it raised.
RecordsBeforeFault ==
  RecordsBefore(ItemGames, ItemFault.chapter)
    + (IF ItemFault.stage = "push" THEN ItemFault.at ELSE 0)

C20_NoPgnGivesEmptyList ==
  (pc = "study_done" /\ PgnFalsy(ItemPgn)) => study_result = <<>>

\* ------------------------------------------------------------ pool of main
\* The loop of main over the results has ended.
BuildDone == pc = "build_done"

StudyGames(i) == all_studies_data[i].pgn.games
StudyFault(i) == all_studies_data[i].pgn.fault

\* The build met a chapter that failed partway through.
SomeSectionFailed ==
  \E i \in 1..Len(all_studies_data) : StudyFault(i) # NoFault

\* The records study i gives when nothing raises, and those of its chapter c.
HealthyRecordsOf(i) ==
  process_single_study_data(
    [all_studies_data[i] EXCEPT !.pgn = [@ EXCEPT !.fault = NoFault]])[1]

ChapterRecordsOf(i, c) ==
  SubSeq(HealthyRecordsOf(i), RecordsBefore(StudyGames(i), c) + 1,
         RecordsBefore(StudyGames(i), c + 1))

\* The number of records study i appends before the place where it raises.
KeptOf(i) ==
  IF StudyFault(i) = NoFault THEN Len(HealthyRecordsOf(i))
  ELSE RecordsBefore(StudyGames(i), StudyFault(i).chapter)
         + (IF StudyFault(i).stage = "push" THEN StudyFault(i).at ELSE 0)

InCorpus(record) ==
  \E k \in 1..Len(all_processed_fens) : all_processed_fens[k] = record

\* The records of the built corpus that carry the study_id of study i.
CorpusOfStudy(i) ==
  LET OfStudy(record) == record.study_id = all_studies_data[i].study_id
  IN SelectSeq(all_processed_fens, OfStudy)

\* C19: after one chapter of a study fails mid-parse, the build continues
\* with the next chapter of that study and with the next studies: every
\* record of every chapter other than the failing one, of the failing study
\* and of every other study, is in the built corpus.
C19_BuildContinuesWithNextSection ==
  (BuildDone /\ SomeSectionFailed) =>
    \A i \in 1..Len(all_studies_data) :
      \A c \in 1..Len(StudyGames(i)) :
        c # StudyFault(i).chapter =>
          \A k \in 1..Len(ChapterRecordsOf(i, c)) :
            InCorpus(ChapterRecordsOf(i, c)[k])

\* C19 as amended: after one chapter of a study fails mid-parse, the build
\* skips the rest of that study and continues with the next studies: for
\* every study, the records of the built corpus that carry its study_id are
\* exactly the records it produced before its failure point (all of its
\* records for a study that does not fail), in order.
C19_BuildContinuesWithNextStudy ==
  (BuildDone /\ SomeSectionFailed) =>
    \A i \in 1..Len(all_studies_data) :
      CorpusOfStudy(i) = SubSeq(HealthyRecordsOf(i), 1, KeptOf(i))

\* Two studies: the first is read without a raise, the second fails at the
\* push of its first chapter, has a chapter behind it, and completes first.
C19_Witness ==
  /\ BuildDone
  /\ Len(all_studies_data) = 2
  /\ StudyFault(1) = NoFault
  /\ Len(StudyGames(1)) = MaxChapters
  /\ StudyFault(2).chapter = 1
  /\ StudyFault(2).stage = "push"
  /\ Len(StudyGames(2)) > 1
  /\ Len(all_processed_fens) = Len(HealthyRecordsOf(1)) + 1
  /\ all_processed_fens[1].study_id = all_studies_data[2].study_id

\* ---------------------------------------------------------------- analyzer
\* The text the chapter texts on disk hold for a chapter, "" when the file is
\* missing or has no entry for it.
TextOnDisk(chapter) ==
  IF \E i \in 1..Len(chapter_texts_file.map) :
       chapter_texts_file.map[i].key = chapter
  THEN chapter_texts_file.map[
         CHOOSE i \in 1..Len(chapter_texts_file.map) :
           chapter_texts_file.map[i].key = chapter].value
  ELSE <<>>

\* C21: the study retrieval of the analyzer raises no error, with or without
\* the chapter texts on disk, and each of the top entries it selects carries
\* the text found for its chapter, or the empty string when there is none.
C21_AnnotationAttachedOrEmpty ==
  pc = "analyze_done" =>
    LET ranked == rank_studies_for_game(all_game_fens_for_study_retrieval,
                                        all_fens_data, 1)
    IN /\ analyzer_error = "none"
       /\ Len(top_studies_for_prompt) = Min2(PromptStudies, Len(ranked))
       /\ \A i \in 1..Len(top_studies_for_prompt) :
            top_studies_for_prompt[i].chapter_text_content
              = TextOnDisk(ranked[i].chapter)

\* ------------------------------------------------------------ pool of main
\* A step of the loop of main that takes a result and merges it.
MergeStep == progress' = progress + 1

AllWorkersDone == \A i \in 1..Len(pool_tasks) : pool_tasks[i] = "done"

\* C22: the merge runs only after all workers have completed: no study's
\* result batch is merged into the corpus while a study is still queued or
\* being processed.
C22_MergeAfterAllWorkers == [][MergeStep => AllWorkersDone]_vars

\* C22 as amended: the merge is a streaming merge in the one loop of main.
\* A study's batch is merged only after the worker processing that study has
\* completed, while other studies may still be queued or being processed:
\* the results merged and those waiting are as many as the completed
\* studies, every record of the corpus comes from a completed study, and
\* when the loop ends every study's batch has been merged.
C22_StreamingMerge ==
  /\ progress + Len(results_iterator) = NumberOf("done")
  /\ \A k \in 1..Len(all_processed_fens) :
       \E i \in 1..Len(all_studies_data) :
         /\ pool_tasks[i] = "done"
         /\ all_processed_fens[k].study_id = all_studies_data[i].study_id
  /\ BuildDone =>
       /\ progress = Len(all_studies_data)
       /\ Len(all_processed_fens)
            = SumSeq([i \in 1..Len(all_studies_data) |-> KeptOf(i)])

\* A batch with records has been merged while another study is being
\* processed and a third is still queued or, with two studies, the other
\* is being processed.
C22_Witness ==
  /\ progress >= 1
  /\ all_processed_fens # <<>>
  /\ NumberOf("running") >= 1
  /\ ~AllWorkersDone

C24_CallsOwnTheirAccumulator ==
  \A c \in CallIds :
    rank_calls[c].at = "done" =>
      rank_calls[c].ranked_studies
        = rank_studies_for_game(rank_calls[c].user_game_fens_list,
                                all_fens_data,
                                rank_calls[c].top_n_ply_matches)

\* Caller b called first and is in the middle of its loop with hits in its
\* dict; caller a called after it, with another query sequence, and has
\* returned a list with entries.
C24_Witness ==
  /\ rank_calls["b"].at = "loop"
  /\ rank_calls["b"].study_chapter_relevance = 1
  /\ rank_calls["b"].ply_idx >= 1
  /\ dict_heap[1] # <<>>
  /\ rank_calls["a"].at = "done"
  /\ rank_calls["a"].ranked_studies # <<>>
  /\ rank_calls["a"].user_game_fens_list # rank_calls["b"].user_game_fens_list
  /\ dict_heap[2] # dict_heap[1]

\* ------------------------------------------------------------------ ranker
\* The indices (from 0) of the query entries with a non-empty encoding.
NonEmptyPlies ==
  { i \in 0..(Len(user_game_fens_list) - 1) : Encoded(i) # <<>> }

\* The ply indices and the number of distances the accumulator holds.
MatchedPlies ==
  UNION { study_chapter_relevance[j].ply_indices_matched :
            j \in 1..Len(study_chapter_relevance) }

DistancesHeld ==
  SumSeq([j \in 1..Len(study_chapter_relevance) |->
            Len(study_chapter_relevance[j].distances)])

\* The hits of one run of the matcher: min(k, corpus size).
HitsPerPly == Min2(top_n, Len(all_fens_data))

\* C25: in rank_studies_for_game a query entry that encodes to the empty
\* string is skipped: the matcher is not run for it, it contributes no
\* distance and no ply index, the other entries keep their original indices,
\* and a query sequence whose entries all encode to the empty string gives an
\* empty result.
C25_EmptyEncodingSkipped ==
  pc = "rank_done" =>
    /\ all_fens_data # <<>> => MatchedPlies = NonEmptyPlies
    /\ DistancesHeld = Cardinality(NonEmptyPlies) * HitsPerPly
    /\ NonEmptyPlies = {} => ranked_studies = <<>>

\* The first entry of the query encodes to the empty string and the last does
\* not: the hits are recorded under the last entry's own index.
C25_Witness ==
  /\ pc = "rank_done"
  /\ all_fens_data # <<>>
  /\ Len(user_game_fens_list) = MaxQuery
  /\ Encoded(0) = <<>>
  /\ MatchedPlies = { MaxQuery - 1 }
  /\ ranked_studies # <<>>

\* C28: in every result of rank_studies_for_game each entry has
\* 1 <= distinct_ply_matches <= total_close_references, and the sum of
\* total_close_references over the entries is (number of query entries with a
\* non-empty encoding) * min(k, corpus size).
C28_EveryHitCountedOnce ==
  pc = "rank_done" =>
    /\ \A i \in 1..Len(ranked_studies) :
         /\ 1 <= ranked_studies[i].distinct_ply_matches
         /\ ranked_studies[i].distinct_ply_matches
              <= ranked_studies[i].total_close_references
    /\ SumSeq([i \in 1..Len(ranked_studies) |->
                 ranked_studies[i].total_close_references])
         = Cardinality(NonEmptyPlies) * HitsPerPly

\* A result with two entries from a corpus larger than k, one of them with
\* more references than matched plies.
C28_Witness ==
  /\ pc = "rank_done"
  /\ top_n < Len(all_fens_data)
  /\ Cardinality(NonEmptyPlies) = MaxQuery
  /\ Len(ranked_studies) >= 2
  /\ \E i \in 1..Len(ranked_studies) :
       ranked_studies[i].distinct_ply_matches
         < ranked_studies[i].total_close_references

\* ------------------------------------------------------------ pool of main
\* The list of records process_single_study_data returns for study i.
StudyBatch(i) == process_single_study_data(all_studies_data[i])[1]

\* The orders in which the studies' results can reach the loop of main.
CompletionOrders ==
  { order \in [1..Len(all_studies_data) -> 1..Len(all_studies_data)] :
      \A i, j \in 1..Len(all_studies_data) : order[i] = order[j] => i = j }

\* The batches of the studies of order, one behind the other.
RECURSIVE BatchesInOrder(_)
BatchesInOrder(order) ==
  IF order = <<>> THEN <<>>
  ELSE StudyBatch(Head(order)) \o BatchesInOrder(Tail(order))

\* C26: for every order in which the workers complete, the merged corpus holds
\* each study's records exactly once, as one contiguous block in the order
\* process_single_study_data produced them: the corpus is the studies'
\* batches one behind the other, in some order of the studies.
C26_OneBlockPerStudy ==
  BuildDone =>
    \E order \in CompletionOrders :
      all_processed_fens = BatchesInOrder(order)

\* Two or more studies with records, merged in another order than that of
\* the input list: the corpus begins with the block of the second study.
C26_Witness ==
  /\ BuildDone
  /\ Len(all_studies_data) >= 2
  /\ Len(StudyBatch(1)) >= 2
  /\ Len(StudyBatch(2)) >= 2
  /\ SubSeq(all_processed_fens, 1, Len(StudyBatch(2))) = StudyBatch(2)
  /\ all_processed_fens[Len(all_processed_fens)].study_id
       = all_studies_data[1].study_id

\* The chapters of study i whose text process_single_study_data stored: all
\* of them, or those up to the chapter whose push raised.
ChaptersWithText(i) ==
  IF StudyFault(i) = NoFault THEN 1..Len(StudyGames(i))
  ELSE 1..StudyFault(i).chapter

\* The text the merged map holds under a key, <<"absent">> if it has none.
MergedText(key) ==
  IF \E k \in 1..Len(all_chapter_texts_map) :
       all_chapter_texts_map[k].key = key
  THEN all_chapter_texts_map[
         CHOOSE k \in 1..Len(all_chapter_texts_map) :
           all_chapter_texts_map[k].key = key].value
  ELSE <<"absent">>

\* C27: for every order in which the workers complete, the merged chapter-text
\* map holds the annotation text of every chapter of every study: no
\* chapter's text is replaced by the text of a chapter of another study or
\* of another chapter of the same study.
C27_EveryChapterTextKept ==
  BuildDone =>
    \A i \in 1..Len(all_studies_data) :
      \A c \in ChaptersWithText(i) :
        MergedText(ChapterIdentifier(all_studies_data[i].title,
                                     StudyGames(i)[c].headers, c))
          = JoinLines(FormattedComments(StudyGames(i)[c]))
====
